---------------------------- MODULE Spec2Model ----------------------------
(***************************************************************************)
(* Model of the synthetic solar-production generator                       *)
(* (backend/data_simulator/solar_generator.py, utils.py, constants.py)     *)
(* and of the scheduled task that stores its readings                      *)
(* (backend/app/tasks.py).                                                 *)
(*                                                                         *)
(* Numbers.  Python floats are modelled in fixed point:                    *)
(*   - a power is an integer number of 1/KW kW (KW = 100000, so one unit   *)
(*     is 0.00001 kW and round(x, 2) rounds to a multiple of 1000 units);  *)
(*   - a multiplicative factor and a uniform draw in [0,1) are integers    *)
(*     in 1/FS (FS = 10000);                                               *)
(*   - every product is floored to the unit.                               *)
(* The random module is one process-wide generator: a state in             *)
(* 0..RngStates-1, a successor function, and an output per state.          *)
(* random.seed(v) sets the state to a function of v; every library call    *)
(* (random, uniform, randint, gauss) reads one output and advances the     *)
(* state once.  A process starts with the generator seeded from the        *)
(* system's entropy: in a state Seed(e), e in 0..MaxEntropy.               *)
(***************************************************************************)
EXTENDS Integers, Sequences, FiniteSets, TLC

VARIABLES
    rng,          \* state of the process-wide `random` generator
    region_seed,  \* SolarDataSimulator.region_seed: None or <<seed>>
    frame,        \* per thread: the locals of the generator call it runs
    sched,        \* thread scheduler: running thread and preemptions used
    task,         \* state of the scheduled task simulate_and_store_realtime_data
    call          \* a direct call of one function: its name, arguments, result

vars == <<rng, region_seed, frame, sched, task, call>>

-----------------------------------------------------------------------------
(* Scales and bounds *)

KW == 100000
FS == 10000

RngStates == 512
MaxEntropy == 30
MaxSeed == 0
MaxDays == 3
MaxPreempt == 1
MaxSoilingDays == 27

None == <<>>
Some(x) == <<x>>

Max(a, b) == IF a >= b THEN a ELSE b
Min(a, b) == IF a <= b THEN a ELSE b
Abs(a) == IF a >= 0 THEN a ELSE 0 - a

-----------------------------------------------------------------------------
(* constants.py *)

SOLAR_CONSTANTS == {"NAIROBI", "MOMBASA", "KISUMU", "NAKURU"}

\* SOLAR_CONSTANTS[location]['seasonal_variation'], in 1/FS
seasonal_variation ==
    [loc \in SOLAR_CONSTANTS |->
        CASE loc = "NAIROBI" -> 1500
          [] loc = "MOMBASA" -> 1200
          [] loc = "KISUMU"  -> 1800
          [] loc = "NAKURU"  -> 1400]

\* SYSTEM_EFFICIENCY = 0.85, in 1/FS
SYSTEM_EFFICIENCY == 8500

\* condition, probability and efficiency in 1/FS, in dictionary order
WEATHER_PATTERNS ==
    << [condition |-> "sunny",         probability |-> 7000, efficiency |-> 10000],
       [condition |-> "partly_cloudy", probability |-> 2000, efficiency |-> 6000],
       [condition |-> "cloudy",        probability |-> 800,  efficiency |-> 3000],
       [condition |-> "rainy",         probability |-> 200,  efficiency |-> 1000] >>

-----------------------------------------------------------------------------
(* datetime *)

IsLeap(y) == (y % 4 = 0) /\ ((y % 100 # 0) \/ (y % 400 = 0))

DaysInMonth(y, m) ==
    IF m = 2 THEN (IF IsLeap(y) THEN 29 ELSE 28)
    ELSE IF m \in {4, 6, 9, 11} THEN 30 ELSE 31

NextDay(dt) ==
    IF dt.d < DaysInMonth(dt.y, dt.m) THEN [dt EXCEPT !.d = dt.d + 1]
    ELSE IF dt.m < 12 THEN [y |-> dt.y, m |-> dt.m + 1, d |-> 1]
    ELSE [y |-> dt.y + 1, m |-> 1, d |-> 1]

RECURSIVE AddDays(_, _)
\* start_date + timedelta(days=n)
AddDays(dt, n) == IF n <= 0 THEN dt ELSE AddDays(NextDay(dt), n - 1)

\* int(date.strftime('%Y%m%d'))
Ymd(dt) == dt.y * 10000 + dt.m * 100 + dt.d

\* date.replace(hour=hour, minute=0, second=0)
Timestamp(dt, hour) == [y |-> dt.y, m |-> dt.m, d |-> dt.d, h |-> hour]

\* the order of datetime values
TsBefore(a, b) ==
    \/ a.y < b.y
    \/ a.y = b.y /\ a.m < b.m
    \/ a.y = b.y /\ a.m = b.m /\ a.d < b.d
    \/ a.y = b.y /\ a.m = b.m /\ a.d = b.d /\ a.h < b.h

-----------------------------------------------------------------------------
(* The random module *)

\* outputs of random.random() in 1/FS.  One state in 32 yields a value under
\* the fault thresholds (0.003, 0.005, 0.025); the others yield a value of
\* UTable by the residue of the state.
UTable == << 3000, 9500, 7500, 6999, 9900, 5000, 9999, 7000, 8000, 400, 9000,
             9800, 1000 >>
FaultU == << 0, 20, 40, 100 >>

RandomU(s) ==
    IF s % 32 = 5 THEN FaultU[((s \div 32) % Len(FaultU)) + 1]
    ELSE UTable[(s % Len(UTable)) + 1]

\* the successor of a generator state: a full-period congruential step
RngNext(s) == (s * 229 + 7) % RngStates

\* random.seed(v)
Seed(v) == v % RngStates

\* random.random()
Random(r) == [val |-> RandomU(r), rng |-> RngNext(r)]

\* random.uniform(a, b) = a + (b-a) * random(), a and b in 1/FS
Uniform(r, a, b) == [val |-> a + ((b - a) * RandomU(r)) \div FS, rng |-> RngNext(r)]

\* random.randint(a, b)
RandInt(r, a, b) == [val |-> a + ((b - a + 1) * RandomU(r)) \div FS, rng |-> RngNext(r)]

\* standard normal deviate in tenths of sigma, by quantile of the draw
NormalZ(u) ==
    IF u < 14 THEN 0 - 30
    ELSE IF u < 228 THEN 0 - 20
    ELSE IF u < 1587 THEN 0 - 10
    ELSE IF u < 8413 THEN 0
    ELSE IF u < 9772 THEN 10
    ELSE IF u < 9986 THEN 20
    ELSE 30

\* random.gauss(mu, sigma), mu and sigma in 1/FS
Gauss(r, mu, sigma) == [val |-> mu + (sigma * NormalZ(RandomU(r))) \div 10, rng |-> RngNext(r)]

-----------------------------------------------------------------------------
(* utils.py *)

RECURSIVE WalkPatterns(_, _, _)
\* the loop of get_weather_condition from table entry i on
WalkPatterns(rand, cumulative, i) ==
    IF i > Len(WEATHER_PATTERNS)
    THEN [condition |-> "sunny", efficiency |-> 10000]
    ELSE LET details == WEATHER_PATTERNS[i]
             cum == cumulative + details.probability
         IN IF rand <= cum
            THEN [condition |-> details.condition, efficiency |-> details.efficiency]
            ELSE WalkPatterns(rand, cum, i + 1)

\* a variant that returns the fallback whatever the draw
get_weather_condition_sunny(r) ==
    [val |-> [condition |-> "sunny", efficiency |-> 10000], rng |-> RngNext(r)]

\* get_weather_condition(date): one random() draw
get_weather_condition(r) ==
    [val |-> WalkPatterns(RandomU(r), 0, 1), rng |-> RngNext(r)]

\* the month lists of apply_seasonal_variation
DryMonths == {1, 2, 6, 7, 8, 9}
RainyMonths == {3, 4, 5, 10, 11, 12}

\* apply_seasonal_variation(base_value, date, variation_factor); no caller in
\* the package
apply_seasonal_variation(base_value, date, variation_factor) ==
    LET multiplier == IF date.m \in DryMonths
                      THEN FS + variation_factor \div 2
                      ELSE IF date.m \in RainyMonths
                           THEN FS - variation_factor \div 2
                           ELSE FS
    IN (base_value * multiplier) \div FS

-----------------------------------------------------------------------------
(* solar_generator.py: the transforms of the loss pipeline *)

\* cos((hour-12)*pi/12) in 1/FS, by |hour-12|.  (In binary floating point the
\* value at |hour-12| = 6 is 6.1e-17 rather than 0: below every resolution a
\* reading reports for a capacity under 10^13 kW.)
CosTable == << 10000, 9659, 8660, 7071, 5000, 2588, 0,
               0 - 2588, 0 - 5000, 0 - 7071, 0 - 8660, 0 - 9659, 0 - 10000 >>

\* a variant that takes the magnitude of the cosine instead of clamping it
clear_sky_irradiance_abs(hour) == Abs(CosTable[Abs(hour - 12) + 1])

clear_sky_irradiance(hour) == Max(0, CosTable[Abs(hour - 12) + 1])

\* a variant that never reseeds
simulate_weather_noseed(r, seed, date) == r

\* region_seed is None: no reseed; else random.seed(region_seed + YYYYMMDD)
simulate_weather_seed(r, seed, date) ==
    IF seed # None THEN Seed(seed[1] + Ymd(date)) ELSE r

simulate_weather(r, seed, date) ==
    get_weather_condition(simulate_weather_seed(r, seed, date))

\* cell temperature in 1/7 degree C: 20 + 15 * max(0, 1 - |hour-13|/7)
simulate_temperature(hour) == 140 + 15 * Max(0, 7 - Abs(hour - 13))

\* round(cell_temp, 2), in 1/100 degree C
RoundTemp(temp7) == (temp7 * 200 + 7) \div 14

\* a variant with the coefficient 0.04 per degree
apply_temperature_loss_steep(power, temp7) ==
    (power * (7000 - 40 * Max(0, temp7 - 175))) \div 7000

\* loss = 1 - max(0, (cell_temp - 25) * 0.004)
apply_temperature_loss(power, temp7) ==
    (power * (7000 - 4 * Max(0, temp7 - 175))) \div 7000

\* a variant without the floor of 0.8
apply_soiling_uncapped(power, days) ==
    (power * (100 - days)) \div 100

\* factor = max(0.8, 1 - 0.01 * min(days_since_clean, 20))
apply_soiling(power, days) ==
    (power * Max(80, 100 - Min(days, 20))) \div 100

\* extra = 1 - 0.005*years - uniform(0, 0.01*max(0, years-4))
panel_degradation(original, years, r) ==
    LET u == Uniform(r, 0, 100 * Max(0, years - 4))
        extra == FS - 50 * years - u.val
    IN [val |-> (original * extra) \div FS, rng |-> u.rng]

\* a variant whose string derate draws its factor from [0.5, 1.8]
panel_faults_boost(power, r) ==
    LET roll == Random(r)
        derate == Uniform(roll.rng, 5000, 18000)
    IN IF roll.val < 50 THEN [val |-> 0, rng |-> roll.rng]
       ELSE IF roll.val < 250
            THEN [val |-> (power * derate.val) \div FS, rng |-> derate.rng]
            ELSE [val |-> power, rng |-> roll.rng]

\* roll < 0.005: total fault; roll < 0.025: string derate by uniform(0.5, 0.8)
panel_faults(power, r) ==
    LET roll == Random(r)
        derate == Uniform(roll.rng, 5000, 8000)
    IN IF roll.val < 50 THEN [val |-> 0, rng |-> roll.rng]
       ELSE IF roll.val < 250
            THEN [val |-> (power * derate.val) \div FS, rng |-> derate.rng]
            ELSE [val |-> power, rng |-> roll.rng]

behavioral_grid_event(power, hour_idx) ==
    IF hour_idx % 60 = 0 THEN (power * 7000) \div FS ELSE power

Season(date) == IF date.m \in {3, 4, 5, 10, 11, 12} THEN "long rains" ELSE "dry"

inject_noise(power, season, weather, r) ==
    LET g == Gauss(r, FS, 100)
        c == Uniform(g.rng, 9200, 10200)
        n1 == IF weather.condition = "cloudy"
              THEN [val |-> (g.val * c.val) \div FS, rng |-> c.rng]
              ELSE g
        s == Uniform(n1.rng, 9700, 10400)
        n2 == IF season \in {"long rains", "short rains"}
              THEN [val |-> (n1.val * s.val) \div FS, rng |-> s.rng]
              ELSE n1
    IN [val |-> (power * n2.val) \div FS, rng |-> n2.rng]

\* a variant in which maintenance never fires
simulate_maintenance_event_never(hour_idx) == FALSE

simulate_maintenance_event(hour_idx) == hour_idx % 120 = 0

\* max(0, min(actual_power, system_capacity_kw))
Clamp(power, capacity) == Max(0, Min(power, capacity))

\* round(actual_power, 2): to the nearest 0.01 kW, ties to even
Round2(power) ==
    LET step == KW \div 100
        q == power \div step
        rem == power % step
    IN IF 2 * rem > step \/ (2 * rem = step /\ q % 2 = 1)
       THEN (q + 1) * step ELSE q * step

-----------------------------------------------------------------------------
(* solar_generator.py: generate_hourly_production and generate_date_range,  *)
(* as steps on the locals of one call (a frame) and the shared generator.   *)
(* Every step returns the frame and the generator state after it.           *)

NoDate == [y |-> 0, m |-> 0, d |-> 0]
NoWeather == [condition |-> "", efficiency |-> 0]

\* the outcomes of one hour's random draws, as factors in 1/FS
\* and, for the two fault rolls, the roll and the power before and after
NoDraws == [efficiency |-> 0, degradation |-> 0, fault |-> 0, curtailed |-> FALSE,
            grid |-> 0, noise |-> 0, outage |-> FALSE,
            fault_roll |-> 0, pre_fault |-> 0, post_fault |-> 0,
            outage_roll |-> 0, pre_outage |-> 0]

\* rng_entry, hour_draws and draw_log are history: the generator state at the
\* call, and what each hour drew.  No step reads them.
IdleFrame ==
    [pc |-> "idle", entry |-> "none",
     system_capacity_kw |-> 0, location |-> "", date |-> NoDate,
     installation_year |-> 0, years_in_operation |-> 0,
     days_since_clean |-> 0, hour |-> 0,
     weather |-> NoWeather, cell_temp |-> 0, actual_power |-> 0,
     hourly_data |-> <<>>,
     start_date |-> NoDate, days |-> 0, day |-> 0, all_data |-> <<>>,
     result |-> <<>>, error |-> "",
     rng_entry |-> 0, hour_draws |-> NoDraws, draw_log |-> <<>>]

OffFrame == [IdleFrame EXCEPT !.pc = "off"]

\* lines 100-105: the location check, then the locals and the soiling draw
EnterHourly(f, r, capacity, loc, dt, year) ==
    IF loc \notin SOLAR_CONSTANTS
    THEN [f |-> [f EXCEPT !.pc = "raised", !.error = "ValueError",
                          !.system_capacity_kw = capacity, !.location = loc,
                          !.date = dt, !.installation_year = year],
          rng |-> r]
    ELSE LET d == RandInt(r, 0, 25)
         IN [f |-> [f EXCEPT !.pc = "seed",
                             !.system_capacity_kw = capacity, !.location = loc,
                             !.date = dt, !.installation_year = year,
                             !.hourly_data = <<>>, !.draw_log = <<>>,
                             !.years_in_operation = dt.y - year,
                             !.days_since_clean = d.val,
                             !.hour = 0],
             rng |-> d.rng]

\* a variant that reseeds with a value that depends on the hour
StepSeed_hourly(f, r, seed) ==
    [f |-> [f EXCEPT !.pc = "weather"],
     rng |-> simulate_weather_seed(r, IF seed # None THEN Some(seed[1] + f.hour)
                                      ELSE seed, f.date)]

\* line 111, first half (simulate_weather line 37-38): the reseed
StepSeed(f, r, seed) ==
    [f |-> [f EXCEPT !.pc = "weather"],
     rng |-> simulate_weather_seed(r, seed, f.date)]

\* lines 109-121: the weather draw, then the deterministic derates
StepWeather(f, r) ==
    LET cs_factor == clear_sky_irradiance(f.hour)
        w == get_weather_condition(r)
        cell_temp == simulate_temperature(f.hour)
        p0 == (f.system_capacity_kw * cs_factor) \div FS
        p1 == (p0 * w.val.efficiency) \div FS
        p2 == apply_temperature_loss(p1, cell_temp)
        p3 == apply_soiling(p2, f.days_since_clean)
    IN [f |-> [f EXCEPT !.pc = "degradation", !.weather = w.val,
                        !.cell_temp = cell_temp, !.actual_power = p3,
                        !.hour_draws = [NoDraws EXCEPT
                                          !.efficiency = w.val.efficiency]],
        rng |-> w.rng]

\* line 123
StepDegradation(f, r) ==
    LET p == panel_degradation(f.actual_power, f.years_in_operation, r)
    IN [f |-> [f EXCEPT !.pc = "faults", !.actual_power = p.val,
                        !.hour_draws.degradation =
                            panel_degradation(FS, f.years_in_operation, r).val],
        rng |-> p.rng]

\* lines 125-127
StepFaults(f, r) ==
    LET p == panel_faults(f.actual_power, r)
    IN [f |-> [f EXCEPT !.pc = "noise",
                        !.actual_power = behavioral_grid_event(p.val, f.hour),
                        !.hour_draws.fault = panel_faults(FS, r).val,
                        !.hour_draws.curtailed =
                            (behavioral_grid_event(p.val, f.hour) # p.val),
                        !.hour_draws.grid = behavioral_grid_event(FS, f.hour),
                        !.hour_draws.fault_roll = Random(r).val,
                        !.hour_draws.pre_fault = f.actual_power,
                        !.hour_draws.post_fault = p.val],
        rng |-> p.rng]

\* lines 130-132
StepNoise(f, r) ==
    LET p == inject_noise(f.actual_power, Season(f.date), f.weather, r)
    IN [f |-> [f EXCEPT !.pc = "outage",
                        !.actual_power = Clamp(p.val, f.system_capacity_kw),
                        !.hour_draws.noise =
                            inject_noise(FS, Season(f.date), f.weather, r).val],
        rng |-> p.rng]

\* a variant that builds the reading before the maintenance update
StepOutage_record_first(f, r) ==
    LET roll == Random(r)
        power == IF roll.val < 30 THEN 0 ELSE f.actual_power
        days == IF simulate_maintenance_event(f.hour) THEN 0
                ELSE f.days_since_clean + 1
        reading == [timestamp |-> Timestamp(f.date, f.hour),
                    power_kw |-> Round2(power),
                    weather |-> f.weather.condition,
                    cell_temp_c |-> RoundTemp(f.cell_temp),
                    soiling_days |-> f.days_since_clean]
    IN [f |-> [f EXCEPT !.pc = "seed", !.actual_power = power,
                        !.days_since_clean = days,
                        !.hourly_data = Append(f.hourly_data, reading),
                        !.draw_log = Append(f.draw_log,
                            [f.hour_draws EXCEPT !.outage = (roll.val < 30),
                                                 !.outage_roll = roll.val,
                                                 !.pre_outage = f.actual_power]),
                        !.hour = f.hour + 1],
        rng |-> roll.rng]

\* lines 134-147: the outage roll, the maintenance update, the reading
StepOutage(f, r) ==
    LET roll == Random(r)
        power == IF roll.val < 30 THEN 0 ELSE f.actual_power
        days == IF simulate_maintenance_event(f.hour) THEN 0
                ELSE f.days_since_clean + 1
        reading == [timestamp |-> Timestamp(f.date, f.hour),
                    power_kw |-> Round2(power),
                    weather |-> f.weather.condition,
                    cell_temp_c |-> RoundTemp(f.cell_temp),
                    soiling_days |-> days]
    IN [f |-> [f EXCEPT !.pc = "seed", !.actual_power = power,
                        !.days_since_clean = days,
                        !.hourly_data = Append(f.hourly_data, reading),
                        !.draw_log = Append(f.draw_log,
                            [f.hour_draws EXCEPT !.outage = (roll.val < 30),
                                                 !.outage_roll = roll.val,
                                                 !.pre_outage = f.actual_power]),
                        !.hour = f.hour + 1],
        rng |-> roll.rng]

\* one iteration of the loop of line 106: the steps in order, each on the
\* result of the one before
HourIteration(f, r, seed) ==
    CHOOSE out \in
      { StepOutage(e.f, e.rng) :
          e \in { StepNoise(d.f, d.rng) :
            d \in { StepFaults(c.f, c.rng) :
              c \in { StepDegradation(b.f, b.rng) :
                b \in { StepWeather(a.f, a.rng) :
                  a \in {StepSeed(f, r, seed)} } } } } } : TRUE

RECURSIVE HourLoop(_, _, _)
\* the loop of line 106 from the frame's hour on (the iteration's result is
\* bound by a quantifier so that it is computed once)
HourLoop(f, r, seed) ==
    IF f.hour >= 24 THEN [f |-> f, rng |-> r]
    ELSE CHOOSE out \in { HourLoop(n.f, n.rng, seed) :
                              n \in {HourIteration(f, r, seed)} } : TRUE

\* generate_hourly_production as a function of its arguments and the generator
\* state: the list (or the error) and the generator state it leaves
generate_hourly_production(r, seed, capacity, loc, dt, year) ==
    LET e == EnterHourly(IdleFrame, r, capacity, loc, dt, year)
    IN IF e.f.pc = "raised"
       THEN [error |-> e.f.error, data |-> <<>>, rng |-> e.rng]
       ELSE CHOOSE out \in { [error |-> "", data |-> n.f.hourly_data,
                               rng |-> n.rng] :
                                 n \in {HourLoop(e.f, e.rng, seed)} } : TRUE

-----------------------------------------------------------------------------
(* The callers' inputs *)

Threads == {1, 2}
Main == 1

\* system_capacity_kw in 1/KW kW: 0.006 kW, 1.006 kW, 0 and -1 kW
Capacities == {600, 100600, 0, 0 - KW}
\* the capacities of the generate_date_range calls: the positive ones
RangeCapacities == {c \in Capacities : c > 0}
LocationInputs == {"NAIROBI", "LONDON"}
Dates == { [y |-> 2024, m |-> 6,  d |-> 15],
           [y |-> 2023, m |-> 12, d |-> 31],
           [y |-> 2024, m |-> 2,  d |-> 28] }
DefaultInstallationYear == 2023
InstallYears == {2019, DefaultInstallationYear, 2024}
SeedInputs == {None} \cup {Some(s) : s \in 0..MaxSeed}
DaysInputs == 0..MaxDays

\* the generator states a process can start in (seeded from OS entropy)
EntropyStates == {Seed(e) : e \in 0..MaxEntropy}

TaskOff == [pc |-> "off"]

\* no function has been called directly
NoCall == [fn |-> "none", args |-> <<>>, out |-> 0]

-----------------------------------------------------------------------------
(* Actions of a thread that calls the simulator *)

\* a caller invokes generate_hourly_production (lines 93-105)
CallHourly(t) ==
    /\ frame[t].pc = "idle"
    /\ \E capacity \in Capacities, loc \in LocationInputs,
          dt \in Dates, year \in InstallYears :
         LET e == EnterHourly([IdleFrame EXCEPT !.entry = "hourly",
                                                !.rng_entry = rng],
                              rng, capacity, loc, dt, year)
         IN /\ frame' = [frame EXCEPT ![t] = e.f]
            /\ rng' = e.rng
    /\ UNCHANGED <<region_seed, sched, task, call>>

\* a caller invokes generate_date_range (lines 170-182)
CallRange(t) ==
    /\ frame[t].pc = "idle"
    /\ \E capacity \in RangeCapacities, loc \in LocationInputs,
          dt \in Dates, n \in DaysInputs :
         frame' = [frame EXCEPT ![t] =
                     [IdleFrame EXCEPT !.pc = "range", !.entry = "range",
                                       !.system_capacity_kw = capacity,
                                       !.location = loc, !.start_date = dt,
                                       !.days = n, !.day = 0, !.all_data = <<>>,
                                       !.rng_entry = rng]]
    /\ UNCHANGED <<rng, region_seed, sched, task, call>>

\* lines 184-193: the next day's call of generate_hourly_production with the
\* default installation year, or the return of all_data
RangeDay(t) ==
    LET f == frame[t] IN
    /\ f.pc = "range"
    /\ IF f.day < f.days
       THEN LET e == EnterHourly(f, rng, f.system_capacity_kw, f.location,
                                 AddDays(f.start_date, f.day),
                                 DefaultInstallationYear)
            IN /\ frame' = [frame EXCEPT ![t] = e.f]
               /\ rng' = e.rng
       ELSE /\ frame' = [frame EXCEPT ![t] =
                           [f EXCEPT !.pc = "returned", !.result = f.all_data]]
            /\ rng' = rng
    /\ UNCHANGED <<region_seed, sched, task, call>>

\* lines 106-147: one whole iteration of the hour loop
Hour(t) ==
    LET f == frame[t] IN
    /\ f.pc = "seed"
    /\ f.hour < 24
    /\ LET n == HourIteration(f, rng, region_seed)
       IN /\ frame' = [frame EXCEPT ![t] = n.f]
          /\ rng' = n.rng
    /\ UNCHANGED <<region_seed, sched, task, call>>

\* a variant of the return in which line 191 assigns the day's list to
\* all_data instead of extending it
ReturnHourly_overwrite(t) ==
    LET f == frame[t] IN
    /\ f.pc = "seed"
    /\ f.hour = 24
    /\ frame' = [frame EXCEPT ![t] =
                   IF f.entry = "range"
                   THEN [f EXCEPT !.pc = "range",
                                  !.all_data = f.hourly_data,
                                  !.day = f.day + 1]
                   ELSE [f EXCEPT !.pc = "returned", !.result = f.hourly_data]]
    /\ UNCHANGED <<rng, region_seed, sched, task, call>>

\* line 148: return hourly_data, to the caller or to line 191 (all_data.extend)
ReturnHourly(t) ==
    LET f == frame[t] IN
    /\ f.pc = "seed"
    /\ f.hour = 24
    /\ frame' = [frame EXCEPT ![t] =
                   IF f.entry = "range"
                   THEN [f EXCEPT !.pc = "range",
                                  !.all_data = f.all_data \o f.hourly_data,
                                  !.day = f.day + 1]
                   ELSE [f EXCEPT !.pc = "returned", !.result = f.hourly_data]]
    /\ UNCHANGED <<rng, region_seed, sched, task, call>>

-----------------------------------------------------------------------------
(* One caller, one call: the generator run hour by hour *)

Init ==
    /\ rng \in EntropyStates
    /\ region_seed \in SeedInputs
    /\ frame = [t \in Threads |-> IF t = Main THEN IdleFrame ELSE OffFrame]
    /\ sched = [running |-> 0, preempts |-> 0]
    /\ task = TaskOff
    /\ call = NoCall

Next ==
    \/ CallHourly(Main)
    \/ CallRange(Main)
    \/ RangeDay(Main)
    \/ Hour(Main)
    \/ ReturnHourly(Main)

Spec == Init /\ [][Next]_vars

-----------------------------------------------------------------------------
(* Properties of one call *)

MainFrame == frame[Main]

Registered(f) == f.location \in SOLAR_CONSTANTS

\* a list of readings holds one reading per clock hour 0..23 of each day, in
\* strictly increasing timestamp order
StrictlyIncreasing(data) ==
    \A i \in 1..Len(data) :
        i > 1 => TsBefore(data[i - 1].timestamp, data[i].timestamp)

OnePerHour(data) ==
    \A i \in 1..Len(data) : data[i].timestamp.h = (i - 1) % 24

\* C1: for every registered location, date, installation_year and
\* capacity_kw > 0, generate_hourly_production returns exactly 24 readings,
\* one per clock hour 0..23 in strictly increasing timestamp order, and every
\* reported power_kw satisfies 0 <= power_kw <= capacity_kw.
C1_ReadingsWithinCapacity ==
    LET f == MainFrame IN
    (f.entry = "hourly" /\ f.pc = "returned" /\ f.system_capacity_kw > 0) =>
        /\ Len(f.result) = 24
        /\ OnePerHour(f.result)
        /\ StrictlyIncreasing(f.result)
        /\ \A i \in 1..Len(f.result) :
              /\ 0 <= f.result[i].power_kw
              /\ f.result[i].power_kw <= f.system_capacity_kw

\* C2: a request for a location that is not in the registry fails with an
\* invalid-location error and produces no readings, through both entry
\* points and for every value of days: the call never returns, and when it
\* has ended it has raised without any reading built.
C2_UnregisteredLocationFails ==
    LET f == MainFrame IN
    (f.entry # "none" /\ ~Registered(f)) =>
        /\ f.pc # "returned"
        /\ f.hourly_data = <<>> /\ f.all_data = <<>> /\ f.result = <<>>
        /\ f.pc = "raised" => f.error = "ValueError"

\* C3: at every clock hour h with |h - 12| >= 6 (clear-sky factor 0) the
\* reading's power_kw is 0, for every capacity, location, date,
\* installation_year and every outcome of the draws; so at hour 0.
C3_NightPowerZero ==
    LET f == MainFrame IN
    \A data \in {f.hourly_data, f.all_data, f.result} :
        \A i \in 1..Len(data) :
            Abs(data[i].timestamp.h - 12) >= 6 => data[i].power_kw = 0

\* a returned day of a positive capacity with production at noon and none at
\* hours 0, 6 and 18
C3_Witness ==
    LET f == MainFrame IN
    /\ f.entry = "hourly" /\ f.pc = "returned" /\ f.system_capacity_kw > 0
    /\ f.result[13].power_kw > 0
    /\ f.result[1].power_kw = 0 /\ f.result[7].power_kw = 0
    /\ f.result[19].power_kw = 0
    /\ \E i \in 1..24 : f.draw_log[i].efficiency < FS
    /\ \E i \in 1..24 : f.draw_log[i].noise > FS

RECURSIVE ConcatDays(_, _, _, _, _, _, _)
\* the readings of days d..n-1 of a window, each day one
\* generate_hourly_production call that starts from the generator state the
\* previous day's call left
ConcatDays(r, seed, capacity, loc, start, d, n) ==
    IF d >= n THEN <<>>
    ELSE CHOOSE out \in
           { g.data \o ConcatDays(g.rng, seed, capacity, loc, start, d + 1, n) :
               g \in {generate_hourly_production(r, seed, capacity, loc,
                                                 AddDays(start, d),
                                                 DefaultInstallationYear)} } : TRUE

\* C4: generate_date_range(cap, loc, start, days=N) returns 24*N readings,
\* equal for the same draws to the concatenation in date order of
\* generate_hourly_production for the dates start + d, d = 0..N-1, with
\* timestamps strictly increasing over the whole sequence.
C4_RangeIsConcatenation ==
    LET f == MainFrame IN
    (f.entry = "range" /\ f.pc = "returned" /\ Registered(f)) =>
        /\ Len(f.result) = 24 * f.days
        /\ f.result = ConcatDays(f.rng_entry, region_seed, f.system_capacity_kw,
                                 f.location, f.start_date, 0, f.days)
        /\ StrictlyIncreasing(f.result)
        /\ OnePerHour(f.result)

\* a returned window of two days that crosses a year boundary
C4_Witness ==
    LET f == MainFrame IN
    /\ f.entry = "range" /\ f.pc = "returned" /\ f.days = 2
    /\ Len(f.result) = 48
    /\ f.result[1].timestamp.y = 2023 /\ f.result[25].timestamp.y = 2024
    /\ f.result[13].power_kw > 0 /\ f.result[37].power_kw > 0

\* C5: with a region_seed, generate_hourly_production returns the same
\* readings for the same arguments whatever the generator state before the
\* run: the run from the state the call found equals the run from another
\* state.
C5_SeededRunsAgree ==
    LET f == MainFrame IN
    (f.entry = "hourly" /\ f.pc = "returned" /\ region_seed # None) =>
        f.result = generate_hourly_production((f.rng_entry + 1) % RngStates,
                       region_seed, f.system_capacity_kw, f.location, f.date,
                       f.installation_year).data

\* a seeded run that returned readings with production, whose soiling draw
\* differs from the one of the run it is compared with
C5_Witness ==
    LET f == MainFrame IN
    /\ f.entry = "hourly" /\ f.pc = "returned" /\ region_seed # None
    /\ f.result[13].power_kw > 0
    /\ RandInt(f.rng_entry, 0, 25).val
         # RandInt((f.rng_entry + 1) % RngStates, 0, 25).val

\* C7: the reseed of simulate_weather does not perturb the stream of another
\* consumer: after a seeded call the generator is in the state the same call
\* would have left without reseeding.
C7_ReseedLeavesStreamAlone ==
    LET f == MainFrame IN
    (f.entry = "hourly" /\ f.pc = "returned" /\ region_seed # None) =>
        rng = generate_hourly_production(f.rng_entry, None,
                  f.system_capacity_kw, f.location, f.date,
                  f.installation_year).rng

\* C8: generate_hourly_production with capacity_kw <= 0 fails with an error
\* and returns no readings.
C8_NonPositiveCapacityFails ==
    LET f == MainFrame IN
    (f.entry = "hourly" /\ f.system_capacity_kw <= 0
        /\ f.pc \in {"returned", "raised"}) =>
        /\ f.pc = "raised"
        /\ f.result = <<>>

\* a day of the hour loop is complete: 24 readings built, none returned yet
DayComplete(f) == f.pc = "seed" /\ f.hour = 24

\* neither fault roll fired and no curtailment changed a value at any hour
NoFaultNoCurtailment(log) ==
    \A i \in 1..Len(log) :
        log[i].fault = FS /\ ~log[i].outage /\ ~log[i].curtailed

\* every hour drew the weather, degradation and noise that hour 12 drew
SameDraws(log) ==
    \A i \in 1..Len(log) :
        /\ log[i].efficiency = log[13].efficiency
        /\ log[i].degradation = log[13].degradation
        /\ log[i].noise = log[13].noise

NoonIsHighest(data) ==
    \A i \in 1..Len(data) : data[i].power_kw <= data[13].power_kw

ClearSkyPeaksAtNoon ==
    \A h \in 0..23 : clear_sky_irradiance(h) <= clear_sky_irradiance(12)

\* C9 as stated: the clear-sky factor is maximal at hour 12, and whenever no
\* fault roll fires and no curtailment applies at any hour of the day, the
\* hour-12 reading has the highest power_kw of the day, for every outcome of
\* the weather, degradation and noise draws.
C9_NoonIsHighest ==
    LET f == MainFrame IN
    DayComplete(f) =>
        /\ ClearSkyPeaksAtNoon
        /\ NoFaultNoCurtailment(f.draw_log) => NoonIsHighest(f.hourly_data)

\* C9 as amended: the clear-sky factor is maximal at hour 12, and whenever no
\* fault roll fires, no curtailment applies and every hour of the day draws
\* the same weather, degradation and noise (as every hour does under a
\* region_seed), the hour-12 reading has the highest power_kw of the day.
C9_NoonIsHighestUnderEqualDraws ==
    LET f == MainFrame IN
    DayComplete(f) =>
        /\ ClearSkyPeaksAtNoon
        /\ (NoFaultNoCurtailment(f.draw_log) /\ SameDraws(f.draw_log))
              => NoonIsHighest(f.hourly_data)

\* a complete day without fault or curtailment, with equal draws at every
\* hour, whose noon reading exceeds those of hours 11 and 13, which produce
\* as well
C9_Witness ==
    LET f == MainFrame IN
    /\ DayComplete(f)
    /\ NoFaultNoCurtailment(f.draw_log) /\ SameDraws(f.draw_log)
    /\ f.hourly_data[12].power_kw > 0 /\ f.hourly_data[14].power_kw > 0
    /\ f.hourly_data[13].power_kw > f.hourly_data[12].power_kw
    /\ f.hourly_data[13].power_kw > f.hourly_data[14].power_kw

-----------------------------------------------------------------------------
(* Two threads that call generate_hourly_production on one simulator.       *)
(* The interpreter runs one thread at a time and may switch threads between *)
(* any two accesses to the random module; a switch away from a thread that  *)
(* could go on is a preemption, and a run has at most MaxPreempt of them.   *)

Live(t) == t \in Threads /\ frame[t].pc \notin {"off", "returned", "raised"}

MayRun(t) ==
    sched.running \in {0, t} \/ ~Live(sched.running) \/ sched.preempts < MaxPreempt

Schedule(t) ==
    /\ MayRun(t)
    /\ sched' = [running |-> t,
                 preempts |-> IF sched.running \notin {0, t} /\ Live(sched.running)
                              THEN sched.preempts + 1 ELSE sched.preempts]

\* the date each thread asks for
ThreadDate(t) ==
    IF t = Main THEN [y |-> 2024, m |-> 6, d |-> 15]
    ELSE [y |-> 2023, m |-> 12, d |-> 31]

\* the capacity the threads ask for: 1.006 kW
ThreadCapacity == 100600

\* thread t calls generate_hourly_production (lines 93-105)
TCall(t) ==
    /\ frame[t].pc = "idle"
    /\ Schedule(t)
    /\ LET e == EnterHourly([IdleFrame EXCEPT !.entry = "hourly",
                                              !.rng_entry = rng],
                            rng, ThreadCapacity, "NAIROBI", ThreadDate(t),
                            DefaultInstallationYear)
       IN /\ frame' = [frame EXCEPT ![t] = e.f]
          /\ rng' = e.rng
    /\ UNCHANGED <<region_seed, task, call>>

\* thread t takes the step of the hour loop its pc names
TStep(t) ==
    LET f == frame[t]
        n == CASE f.pc = "seed"        -> StepSeed(f, rng, region_seed)
               [] f.pc = "weather"     -> StepWeather(f, rng)
               [] f.pc = "degradation" -> StepDegradation(f, rng)
               [] f.pc = "faults"      -> StepFaults(f, rng)
               [] f.pc = "noise"       -> StepNoise(f, rng)
               [] f.pc = "outage"      -> StepOutage(f, rng)
    IN /\ f.pc \in {"seed", "weather", "degradation", "faults", "noise", "outage"}
       /\ f.pc = "seed" => f.hour < 24
       /\ Schedule(t)
       /\ frame' = [frame EXCEPT ![t] = n.f]
       /\ rng' = n.rng
       /\ UNCHANGED <<region_seed, task, call>>

\* line 148 in thread t
TReturn(t) ==
    /\ frame[t].pc = "seed"
    /\ frame[t].hour = 24
    /\ Schedule(t)
    /\ frame' = [frame EXCEPT ![t] =
                   [frame[t] EXCEPT !.pc = "returned",
                                    !.result = frame[t].hourly_data]]
    /\ UNCHANGED <<rng, region_seed, task, call>>

InitConc ==
    /\ rng \in {Seed(0), Seed(MaxEntropy)}
    /\ region_seed \in SeedInputs \ {None}
    /\ frame = [t \in Threads |-> IdleFrame]
    /\ sched = [running |-> 0, preempts |-> 0]
    /\ task = TaskOff
    /\ call = NoCall

NextConc ==
    \E t \in Threads : TCall(t) \/ TStep(t) \/ TReturn(t)

SpecConc == InitConc /\ [][NextConc]_vars

\* C6: concurrent generate_hourly_production calls each own their random
\* draws and soiling state: what a call returns is what it returns when it
\* runs alone with the same seed, however the other call is interleaved.
C6_ConcurrentCallsIndependent ==
    (\A t \in Threads : frame[t].pc = "returned") =>
        \A t \in Threads :
            frame[t].result =
                generate_hourly_production(frame[t].rng_entry, region_seed,
                    frame[t].system_capacity_kw, frame[t].location,
                    frame[t].date, frame[t].installation_year).data

-----------------------------------------------------------------------------
(* app/tasks.py: the scheduled task simulate_and_store_realtime_data.       *)
(* task.installations and task.production_data are the database tables;    *)
(* task.session_new and task.session_dirty are the session's pending rows   *)
(* and pending installation updates, written by db.commit().  The Redis     *)
(* cache (cache_installation_data) swallows its own errors and is left out. *)

max_retries == 3
retry_countdown == 60
MaxInstallations == 2

\* the rows of the installations table the task can find
InstallationKinds ==
    { [capacity_kw |-> 100600, location_name |-> "NAIROBI"],
      [capacity_kw |-> 100600, location_name |-> "LONDON"] }

NoTimestamp == [y |-> 0, m |-> 0, d |-> 0, h |-> 0]

InstallationTables ==
    UNION { [1..n -> InstallationKinds] : n \in 0..MaxInstallations }

Installation(id, kind) ==
    [id |-> id, capacity_kw |-> kind.capacity_kw,
     location_name |-> kind.location_name, status |-> "active",
     last_data_timestamp |-> NoTimestamp]

\* the times datetime.utcnow() returns: the task runs at minute 0 of an hour
NowInputs == { Timestamp(ThreadDate(1), 13), Timestamp(ThreadDate(2), 0) }

\* the keys line 80-88 reads from a reading
ReadingKeys == {"timestamp", "power_kw", "weather", "solar_elevation"}

RECURSIVE StoreReadings(_, _, _)
\* lines 78-101 from reading k on: the records added to the session, and
\* whether a reading raised (KeyError on a key the reading lacks)
StoreReadings(inst, data, k) ==
    IF k > Len(data) THEN [added |-> <<>>, raised |-> FALSE]
    ELSE IF ~(ReadingKeys \subseteq DOMAIN data[k])
         THEN [added |-> <<>>, raised |-> TRUE]
         ELSE LET record == [installation_id |-> inst.id,
                             timestamp |-> data[k].timestamp,
                             power_kw |-> data[k].power_kw,
                             weather |-> data[k].weather,
                             energy_kwh |-> data[k].power_kw,
                             status |-> inst.status]
              IN CHOOSE out \in
                   { [added |-> <<record>> \o rest.added, raised |-> rest.raised] :
                       rest \in {StoreReadings(inst, data, k + 1)} } : TRUE

TaskInit(table) ==
    [pc |-> "scheduled", retries |-> 0, countdown |-> 0,
     now |-> NoTimestamp, i |-> 1,
     installations |-> [k \in DOMAIN table |-> Installation(k, table[k])],
     production_data |-> <<>>,
     session_open |-> FALSE, session_new |-> <<>>, session_dirty |-> {},
     generated |-> [k \in DOMAIN table |-> <<>>]]

\* lines 60-66: the session, the simulator, the query and the run time;
\* SessionLocal() or the query may raise
TaskBegin ==
    /\ task.pc = "scheduled"
    /\ \E outcome \in {"ok", "session_error", "query_error"}, now \in NowInputs :
         task' = [task EXCEPT
                    !.pc = IF outcome = "ok" THEN "loop" ELSE "except",
                    !.session_open = (outcome # "session_error"),
                    !.session_new = <<>>, !.session_dirty = {},
                    !.now = IF outcome = "ok" THEN now ELSE NoTimestamp,
                    !.generated = [k \in DOMAIN task.generated |-> <<>>],
                    !.i = 1]
    /\ region_seed' = None
    /\ UNCHANGED <<rng, frame, sched, call>>

\* a variant in which an exception raised for an installation is not caught
\* in the loop and reaches the outer handler
TaskInstallation_escape ==
    /\ task.pc = "loop"
    /\ task.i <= Len(task.installations)
    /\ LET inst == task.installations[task.i]
           dt == [y |-> task.now.y, m |-> task.now.m, d |-> task.now.d]
       IN \E g \in {generate_hourly_production(rng, region_seed,
                          inst.capacity_kw, inst.location_name, dt, task.now.y)} :
          \E st \in {StoreReadings(inst, g.data, 1)} :
          LET completed == g.error = "" /\ ~st.raised IN
          /\ rng' = g.rng
          /\ task' = [task EXCEPT
                        !.pc = IF completed THEN "loop" ELSE "except",
                        !.i = task.i + 1,
                        !.generated[task.i] = g.data,
                        !.session_new = task.session_new \o st.added,
                        !.session_dirty = IF completed
                                          THEN task.session_dirty \cup {inst.id}
                                          ELSE task.session_dirty]
    /\ UNCHANGED <<region_seed, frame, sched, call>>

\* lines 68-109: one installation; an exception inside is caught and the
\* loop continues
TaskInstallation ==
    /\ task.pc = "loop"
    /\ task.i <= Len(task.installations)
    /\ LET inst == task.installations[task.i]
           dt == [y |-> task.now.y, m |-> task.now.m, d |-> task.now.d]
       IN \E g \in {generate_hourly_production(rng, region_seed,
                          inst.capacity_kw, inst.location_name, dt, task.now.y)} :
          \E st \in {StoreReadings(inst, g.data, 1)} :
          LET completed == g.error = "" /\ ~st.raised IN
          /\ rng' = g.rng
          /\ task' = [task EXCEPT
                        !.i = task.i + 1,
                        !.generated[task.i] = g.data,
                        !.session_new = task.session_new \o st.added,
                        !.session_dirty = IF completed
                                          THEN task.session_dirty \cup {inst.id}
                                          ELSE task.session_dirty]
    /\ UNCHANGED <<region_seed, frame, sched, call>>

\* line 111: db.commit() writes the pending rows and updates, or raises
TaskCommit ==
    /\ task.pc = "loop"
    /\ task.i > Len(task.installations)
    /\ \E ok \in BOOLEAN :
         task' = IF ok
                 THEN [task EXCEPT
                         !.pc = "done",
                         !.production_data = task.production_data \o task.session_new,
                         !.installations =
                             [k \in DOMAIN task.installations |->
                                IF k \in task.session_dirty
                                THEN [task.installations[k] EXCEPT
                                        !.last_data_timestamp = task.now]
                                ELSE task.installations[k]],
                         !.session_new = <<>>, !.session_dirty = {},
                         !.session_open = FALSE]
                 ELSE [task EXCEPT !.pc = "except"]
    /\ UNCHANGED <<rng, region_seed, frame, sched, call>>

\* lines 114-119: self.retry(exc=e, countdown=60) schedules the task again
\* unless max_retries is used up; the session is closed
TaskRetry ==
    /\ task.pc = "except"
    /\ task' = IF task.retries + 1 > max_retries
               THEN [task EXCEPT !.pc = "failed", !.session_open = FALSE,
                                 !.session_new = <<>>, !.session_dirty = {}]
               ELSE [task EXCEPT !.pc = "scheduled",
                                 !.retries = task.retries + 1,
                                 !.countdown = retry_countdown,
                                 !.session_open = FALSE,
                                 !.session_new = <<>>, !.session_dirty = {}]
    /\ UNCHANGED <<rng, region_seed, frame, sched, call>>

InitTask ==
    /\ rng \in {Seed(0), Seed(MaxEntropy)}
    /\ region_seed = None
    /\ frame = [t \in Threads |-> OffFrame]
    /\ sched = [running |-> 0, preempts |-> 0]
    /\ \E table \in InstallationTables : task = TaskInit(table)
    /\ call = NoCall

NextTask == TaskBegin \/ TaskInstallation \/ TaskCommit \/ TaskRetry

SpecTask == InitTask /\ [][NextTask]_vars

\* C10: after a run of the task that does not raise outside the
\* per-installation loop, every installation with a registered location has
\* each of its 24 generated readings stored as a ProductionData row with its
\* id and the reading's timestamp and power_kw, and has last_data_timestamp
\* set to the run time.
C10_ReadingsStored ==
    task.pc = "done" =>
        \A k \in DOMAIN task.installations :
            LET inst == task.installations[k] IN
            inst.location_name \in SOLAR_CONSTANTS =>
                /\ Len(task.generated[k]) = 24
                /\ \A j \in 1..Len(task.generated[k]) :
                      \E n \in 1..Len(task.production_data) :
                          /\ task.production_data[n].installation_id = inst.id
                          /\ task.production_data[n].timestamp
                                = task.generated[k][j].timestamp
                          /\ task.production_data[n].power_kw
                                = task.generated[k][j].power_kw
                /\ inst.last_data_timestamp = task.now

-----------------------------------------------------------------------------
(* The task under a worker that runs every execution it has scheduled: a    *)
(* started execution runs to its end, and a retry message is delivered.     *)

SpecTaskFair == InitTask /\ [][NextTask]_vars /\ WF_vars(NextTask)

\* the task is in the per-installation loop with an installation left
InLoop == task.pc = "loop" /\ task.i <= Len(task.installations)

\* the execution has ended for good: committed, or given up
TaskEnded == task.pc \in {"done", "failed"}

\* C11: bounded retry with fixed backoff.  A step of the per-installation
\* loop, whether the installation raised or not, goes on to the next
\* installation and is not retried; the outer handler is reached only from
\* the session creation, the query or the commit; every retry is scheduled
\* with a countdown of 60 seconds from the outer handler and adds one to the
\* retry count, which never exceeds 3; the task gives up only after 3
\* retries; and every execution eventually ends.
C11_BoundedRetry ==
    /\ [][InLoop => (task'.pc = "loop" /\ task'.i = task.i + 1
                        /\ task'.retries = task.retries)]_vars
    /\ [][(task'.pc = "except" /\ task.pc # "except") =>
              (task.pc = "scheduled" \/ (task.pc = "loop" /\ ~InLoop))]_vars
    /\ [][task'.retries # task.retries =>
              (/\ task.pc = "except" /\ task'.pc = "scheduled"
               /\ task'.retries = task.retries + 1
               /\ task'.countdown = 60)]_vars
    /\ [][(task'.pc = "failed" /\ task.pc # "failed") => task.retries = 3]_vars
    /\ [](task.retries <= 3)
    /\ <>TaskEnded

\* a run that committed after 3 retries, in which the first installation
\* raised (unregistered location) and the second was still processed
C11_Witness ==
    /\ task.pc = "done" /\ task.retries = 3 /\ task.countdown = 60
    /\ Len(task.installations) = 2
    /\ task.installations[1].location_name \notin SOLAR_CONSTANTS
    /\ task.generated[1] = <<>>
    /\ Len(task.generated[2]) = 24

-----------------------------------------------------------------------------
(* Properties of the steps of the loss pipeline *)

\* the caller is inside the hour loop with an hour left to run
InHourLoop(f) == f.pc = "seed" /\ f.hour < 24

\* C12: during generate_hourly_production days_since_clean is never
\* negative, and every hour either adds exactly 1 to it or resets it to 0:
\* it is reset exactly at the hours whose index is a multiple of 120 and
\* grows by 1 at every other hour.
C12_SoilingCounter ==
    /\ [](MainFrame.days_since_clean >= 0)
    /\ [][InHourLoop(MainFrame) =>
             frame'[Main].days_since_clean =
                 IF MainFrame.hour % 120 = 0 THEN 0
                 ELSE MainFrame.days_since_clean + 1]_vars

\* a complete day that started from a soiling phase above 0, was reset at
\* hour 0 and counted up to 23
C12_Witness ==
    LET f == MainFrame IN
    /\ f.entry = "hourly" /\ DayComplete(f)
    /\ RandInt(f.rng_entry, 0, 25).val > 0
    /\ f.hourly_data[1].soiling_days = 0
    /\ f.days_since_clean = 23

\* C13: curtailment goes by the hour index counted from the start of the
\* generated window: in a generate_date_range run the value of a reading is
\* scaled by 0.7 exactly when its index in the window is a multiple of 60,
\* and is left alone at every other reading.
C13_CurtailmentByWindowIndex ==
    [][(InHourLoop(MainFrame) /\ MainFrame.entry = "range") =>
          LET idx == 24 * MainFrame.day + MainFrame.hour
              applied == frame'[Main].draw_log[MainFrame.hour + 1].grid
          IN IF idx % 60 = 0 THEN applied = 7000 ELSE applied = FS]_vars

\* the hour's draws left the value alone: sunny weather, no degradation, no
\* fault, no outage, no curtailment and a noise factor of 1
UnitDraws(draws) ==
    /\ draws.efficiency = FS /\ draws.degradation = FS /\ draws.fault = FS
    /\ draws.grid = FS /\ draws.noise = FS /\ ~draws.outage

\* C14: the pipeline starts from 0.85 * capacity_kw * clear-sky factor: at
\* every hour whose draws leave the value alone, the reported power is that
\* product, after the temperature and soiling derates of the hour (both 1
\* when the cell is at most 25 degrees C and the panel was just cleaned),
\* clamped and rounded.
C14_SystemEfficiencyApplied ==
    LET f == MainFrame IN
    DayComplete(f) =>
        \A i \in 2..24 :
            UnitDraws(f.draw_log[i]) =>
                f.hourly_data[i].power_kw =
                    Round2(Clamp(
                        apply_soiling(
                            apply_temperature_loss(
                                (((f.system_capacity_kw * clear_sky_irradiance(i - 1))
                                    \div FS) * SYSTEM_EFFICIENCY) \div FS,
                                simulate_temperature(i - 1)),
                            f.hourly_data[i - 1].soiling_days),
                        f.system_capacity_kw))

\* C15: every hour's power is seasonally adjusted with the location's
\* seasonal_variation before noise and clamping (times 1 + variation*0.5 in
\* January, February and June-September, times 1 - variation*0.5 in
\* March-May and October-December), and every month is in exactly one of
\* the two groups: at every hour whose draws leave the value alone, the
\* reported power is capacity_kw * clear-sky factor after the hour's
\* temperature and soiling derates and the seasonal multiplier, clamped and
\* rounded.
C15_SeasonallyAdjusted ==
    LET f == MainFrame IN
    /\ \A m \in 1..12 : (m \in DryMonths) # (m \in RainyMonths)
    /\ DayComplete(f) =>
          \A i \in 2..24 :
              UnitDraws(f.draw_log[i]) =>
                  f.hourly_data[i].power_kw =
                      Round2(Clamp(
                          apply_seasonal_variation(
                              apply_soiling(
                                  apply_temperature_loss(
                                      (f.system_capacity_kw
                                          * clear_sky_irradiance(i - 1)) \div FS,
                                      simulate_temperature(i - 1)),
                                  f.hourly_data[i - 1].soiling_days),
                              f.date, seasonal_variation[f.location]),
                          f.system_capacity_kw))

C20_DegradationNeverGains ==
    LET f == MainFrame
        years == f.years_in_operation
    IN \A i \in 1..Len(f.draw_log) :
          LET multiplier == f.draw_log[i].degradation IN
          /\ years <= 4 => multiplier = FS - 50 * years
          /\ years > 4 =>
                /\ FS - 50 * years - 100 * (years - 4) <= multiplier
                /\ multiplier <= FS - 50 * years
          /\ multiplier <= FS

\* C21: in every reading of generate_hourly_production the reported
\* soiling_days is the reading's clock hour (0 at hour 0, at most 23),
\* whatever soiling phase the call drew at its start: the counter is reset
\* at hour 0 of every date and recorded after the update.
C21_SoilingDaysIsClockHour ==
    LET f == MainFrame IN
    \A data \in {f.hourly_data, f.all_data, f.result} :
        \A i \in 1..Len(data) :
            /\ data[i].soiling_days = data[i].timestamp.h
            /\ data[i].soiling_days <= 23

\* a returned day whose call drew a soiling phase above 0 and whose readings
\* run from 0 at hour 0 to 23 at hour 23
C21_Witness ==
    LET f == MainFrame IN
    /\ f.entry = "hourly" /\ f.pc = "returned"
    /\ RandInt(f.rng_entry, 0, 25).val > 0
    /\ f.result[1].soiling_days = 0
    /\ f.result[24].soiling_days = 23

\* the draws an hour makes from the generator state r: the weather, the
\* degradation multiplier, the fault roll and the outage roll
DrawsFrom(f, r) ==
    LET w == get_weather_condition(r)
        g == panel_degradation(FS, f.years_in_operation, w.rng)
    IN [condition |-> w.val.condition, efficiency |-> w.val.efficiency,
        degradation |-> g.val, fault_roll |-> Random(g.rng).val]

\* C22: with a region_seed every hour of a date starts from the generator
\* seeded with region_seed + YYYYMMDD, so all readings of the date carry the
\* same weather condition, every hour draws the same degradation, fault,
\* noise and outage values, and a fault or outage that fires at one hour
\* fires at every hour of the date.
C22_SameDrawsEveryHour ==
    LET f == MainFrame IN
    (region_seed # None /\ f.draw_log # <<>>) =>
        \E first \in {DrawsFrom(f, Seed(region_seed[1] + Ymd(f.date)))} :
        \A i \in 1..Len(f.draw_log) :
            LET d == f.draw_log[i] IN
            /\ f.hourly_data[i].weather = f.hourly_data[1].weather
            /\ f.hourly_data[i].weather = first.condition
            /\ d.efficiency = first.efficiency
            /\ d.degradation = first.degradation
            /\ d.fault_roll = first.fault_roll
            /\ d.fault = f.draw_log[1].fault
            /\ d.noise = f.draw_log[1].noise
            /\ d.outage_roll = f.draw_log[1].outage_roll
            /\ d.outage = f.draw_log[1].outage

\* a complete seeded day under a weather other than sunny that produced at
\* noon, in a call that found the generator in another state than the seeded
\* one
C22_Witness ==
    LET f == MainFrame IN
    /\ region_seed # None /\ DayComplete(f)
    /\ f.hourly_data[1].weather # "sunny"
    /\ f.hourly_data[24].weather = f.hourly_data[1].weather
    /\ f.hourly_data[13].power_kw > 0
    /\ f.rng_entry # Seed(region_seed[1] + Ymd(f.date))

-----------------------------------------------------------------------------
(* The transforms called directly, one call per run, on arguments drawn     *)
(* from bounded sets and on every state of the generator.                   *)

\* powers in 1/KW kW: 0, one unit, 0.006 kW, 0.83 kW, 1.006 kW
PowerInputs == {0, 1, 600, 83000, 100600}

\* apply_soiling(power, days_since_clean)
CallApplySoiling ==
    /\ call.fn = "none"
    /\ \E power \in PowerInputs, days \in 0..MaxSoilingDays :
         call' = [fn |-> "apply_soiling", args |-> <<power, days>>,
                  out |-> apply_soiling(power, days)]
    /\ UNCHANGED <<rng, region_seed, frame, sched, task>>

\* simulate_temperature(location, date, hour), then
\* apply_temperature_loss(power, cell_temp) on its result
CallTemperature ==
    /\ call.fn = "none"
    /\ \E hour \in 0..23, power \in PowerInputs :
         LET cell_temp == simulate_temperature(hour)
         IN call' = [fn |-> "temperature", args |-> <<hour, power>>,
                     out |-> <<cell_temp, apply_temperature_loss(power, cell_temp)>>]
    /\ UNCHANGED <<rng, region_seed, frame, sched, task>>

\* get_weather_condition(date) on the generator state of the run
CallWeather ==
    /\ call.fn = "none"
    /\ LET w == get_weather_condition(rng)
       IN /\ call' = [fn |-> "get_weather_condition", args |-> <<rng>>,
                      out |-> w.val]
          /\ rng' = w.rng
    /\ UNCHANGED <<region_seed, frame, sched, task>>

InitFn ==
    /\ rng \in 0..(RngStates - 1)
    /\ region_seed = None
    /\ frame = [t \in Threads |-> OffFrame]
    /\ sched = [running |-> 0, preempts |-> 0]
    /\ task = TaskOff
    /\ call = NoCall

NextFn ==
    \/ CallApplySoiling
    \/ CallTemperature
    \/ CallWeather

SpecFn == InitFn /\ [][NextFn]_vars

\* C16: for every power >= 0 and d >= 0 the soiling multiplier is 1 at 0
\* days, 1 - 0.01*d up to 20 days and 0.8 from 20 days on, so
\* apply_soiling(power, d + 1) <= apply_soiling(power, d) and
\* 0.8*power <= apply_soiling(power, d) <= power (products floored to the
\* unit of power).
C16_SoilingNonIncreasing ==
    call.fn = "apply_soiling" =>
        LET power == call.args[1]
            d == call.args[2]
        IN /\ d = 0 => call.out = power
           /\ d <= 20 => call.out = (power * (100 - d)) \div 100
           /\ d >= 20 => call.out = (power * 80) \div 100
           /\ apply_soiling(power, d + 1) <= call.out
           /\ (power * 80) \div 100 <= call.out
           /\ call.out <= power

\* a call past the saturation point on a positive power, which loses
\* exactly the 20% it lost at 20 days
C16_Witness ==
    /\ call.fn = "apply_soiling"
    /\ call.args[1] > 1 /\ call.args[2] > 20
    /\ call.out = apply_soiling(call.args[1], 20)
    /\ call.out < apply_soiling(call.args[1], 19)

\* C18: the cell temperature (in 1/7 degree C) is 20 degrees C at every
\* night hour (|hour - 13| >= 7), is highest at hour 13 and within 2 degrees
\* of 45 degrees C there, and the derate factor computed from it lies in
\* (0, 1] at every hour, so the derated power never exceeds the power.
C18_DiurnalTemperature ==
    call.fn = "temperature" =>
        LET hour == call.args[1]
            power == call.args[2]
            cell_temp == call.out[1]
            factor == apply_temperature_loss(FS, cell_temp)
        IN /\ Abs(hour - 13) >= 7 => cell_temp = 7 * 20
           /\ cell_temp <= simulate_temperature(13)
           /\ hour = 13 => Abs(cell_temp - 7 * 45) <= 7 * 2
           /\ 0 < factor /\ factor <= FS
           /\ call.out[2] <= power

\* C19: for the draw r of the call the sampler returns sunny (efficiency
\* 1.0) for r up to 0.70, partly_cloudy (0.6) above that up to 0.90, cloudy
\* (0.3) up to 0.98 and rainy (0.1) up to 1.00; the result is always one of
\* the four conditions with an efficiency in (0, 1], and a draw above every
\* bucket gives sunny with efficiency 1.0.
C19_WeatherBuckets ==
    call.fn = "get_weather_condition" =>
        LET r == RandomU(call.args[1])
            w == call.out
        IN /\ r <= 7000 => w = [condition |-> "sunny", efficiency |-> 10000]
           /\ (7000 < r /\ r <= 9000) =>
                  w = [condition |-> "partly_cloudy", efficiency |-> 6000]
           /\ (9000 < r /\ r <= 9800) =>
                  w = [condition |-> "cloudy", efficiency |-> 3000]
           /\ (9800 < r /\ r <= 10000) =>
                  w = [condition |-> "rainy", efficiency |-> 1000]
           /\ r > 10000 => w = [condition |-> "sunny", efficiency |-> 10000]
           /\ w.condition \in {"sunny", "partly_cloudy", "cloudy", "rainy"}
           /\ 0 < w.efficiency /\ w.efficiency <= FS

\* a call whose draw fell in the last bucket, beyond 0.98
C19_Witness ==
    /\ call.fn = "get_weather_condition"
    /\ RandomU(call.args[1]) > 9800
    /\ call.out.condition = "rainy"
    /\ rng = RngNext(call.args[1])

=============================================================================
